---- MODULE Spec2Model ----
(***************************************************************************)
(* A model of tools/utils/blend2json.py: the block filter                  *)
(* (do_bblock_filter and its recursive helper), the DATA writer loop of    *)
(* bblocks_to_json, the address anonymizer gen_fake_addresses, the         *)
(* validator check_file, the json_dumps/json_default pair and the file     *)
(* loop of main.                                                           *)
(*                                                                         *)
(* Three specifications share the operators below:                         *)
(*   SpecFilter  one pass of bblocks_to_json over one blend, rule by rule  *)
(*   SpecAddr    gen_fake_addresses followed by check_file, block by block *)
(*   Spec        main: the loop over zip(args.input, args.output)          *)
(***************************************************************************)
EXTENDS Integers, Sequences, FiniteSets, TLC

\* Bounds of the model.
NumBlocks == 3
MaxRecLvl == 1
MaxRules == 2
MaxAddr == 3
MaxHash == 2
MaxInputs == 2

\* rec_lvl = 100, the depth that stands for '*' (infinite recursion).
InfiniteRecLvl == 100

VARIABLES
    pc,             \* position in the function the specification steps through
    blocks,         \* blend.blocks of the blend being processed
    filters,        \* args.block_filters, already parsed into 4-tuples
    address_map,    \* the dict gen_fake_addresses returns (ret)
    user_data,      \* block.user_data of every block: None or an integer
    bi,             \* index of the block the current loop is at
    fi,             \* index of the rule the loop of do_bblock_filter is at
    has_include,    \* local of do_bblock_filter
    do_break,       \* local of do_bblock_filter
    has_match,      \* local of do_bblock_filter
    di,             \* index of the next pair of the loop over data_keyval
    stack,          \* the calls of do_bblock_filter_data_recursive in progress
    DATA,           \* the blocks written to the "DATA" section, in order
    hashes,         \* local set of gen_fake_addresses
    diag,           \* the addresses check_file printed an ERROR for, in order
    args,           \* the parsed command line that main works on
    files,          \* what every input path holds
    idx,            \* position of main's loop in zip(args.input, args.output)
    addr_old,       \* check_file: the set of the addresses seen
    validated,      \* indices of the inputs check_file has run on
    written,        \* indices of the inputs whose JSON document was written
    error           \* the exception that ended main, or "none"

vars == <<pc, blocks, filters, address_map, user_data, bi, fi, has_include,
          do_break, has_match, di, stack, DATA, hashes, diag, args, files, idx,
          addr_old, validated, written, error>>

\* The state of gen_fake_addresses, check_file and main, which the filter
\* pass leaves alone.
outerVars == <<hashes, diag, args, files, idx, addr_old, validated, written,
               error>>

\* The state of the filter pass, which gen_fake_addresses, check_file and the
\* loop of main leave alone.
filterVars == <<filters, fi, has_include, do_break, has_match, di, stack>>

---------------------------------------------------------------------------
(* Python values and helpers *)

\* None and an integer n as the value of block.user_data.
None == <<>>
Some(n) == <<n>>
Val(u) == u[1]

Max(a, b) == IF a >= b THEN a ELSE b
Min(a, b) == IF a <= b THEN a ELSE b

Range(f) == {f[x] : x \in DOMAIN f}

\* s[1:-1]
Strip(s) == SubSeq(s, 2, Len(s) - 1)

\* dict.get(k, default)
DictGet(d, k, default) == IF k \in DOMAIN d THEN d[k] ELSE default

\* The values json_dumps is handed: bytes, int, str and Ellipsis objects.
PyBytes(s) == [t |-> "bytes", s |-> s]
PyStr(s) == [t |-> "str", s |-> s]
PyInt(i) == [t |-> "int", i |-> i]
PyEllipsis == [t |-> "ellipsis"]

Digit == <<"0", "1", "2", "3", "4", "5", "6", "7", "8", "9">>

\* The decimal text of a natural number.
RECURSIVE IntStr(_)
IntStr(n) == IF n < 10 THEN Digit[n + 1]
             ELSE IntStr(n \div 10) \o Digit[(n % 10) + 1]

\* json_default(o): bytes give repr(o)[2:-1]; for any other object the elif
\* evaluates the name i, which is bound nowhere: NameError.
json_default(o) ==
    IF o.t = "bytes"
    THEN [raised |-> "none",
          val |-> PyStr(SubSeq("b'" \o o.s \o "'", 3, Len(o.s) + 2))]
    ELSE [raised |-> "NameError", val |-> o]

\* json.dumps(i, default=json_default): int and str are encoded directly, any
\* other object goes through default and its result is encoded.
json_dumps(i) ==
    IF i.t = "int" THEN [raised |-> "none", text |-> IntStr(i.i)]
    ELSE IF i.t = "str" THEN [raised |-> "none", text |-> "\"" \o i.s \o "\""]
    ELSE LET d == json_default(i)
         IN IF d.raised # "none" THEN [raised |-> d.raised, text |-> ""]
            ELSE [raised |-> "none", text |-> "\"" \o d.val.s \o "\""]

---------------------------------------------------------------------------
(* The blend: blocks, their struct and pointer access *)

\* blend.structs[block.sdna_index].fields: every block of the model has the
\* same struct, two pointer fields and one scalar field.
StructFields ==
    << [name_only |-> "n", is_pointer |-> TRUE, array_size |-> 1],
       [name_only |-> "anb", is_pointer |-> TRUE, array_size |-> 1],
       [name_only |-> "v", is_pointer |-> FALSE, array_size |-> 1] >>

\* field_from_name.get(name): a one-element list, or none when there is no
\* field of that name (the None that the loop skips).
FieldFromName(name) ==
    SelectSeq(StructFields, LAMBDA f : f.name_only = name)

\* The raw value of a field of block b: a pointer field holds an address.
FieldValue(blks, b, name) ==
    IF name = "v" THEN blks[b].v ELSE PyInt(blks[b].ptr[name])

\* block.get_pointer(p): the block at the address the field holds, 0 (None)
\* for a null or dangling pointer.
get_pointer(blks, b, name) ==
    LET a == blks[b].ptr[name]
        hit == {c \in DOMAIN blks : blks[c].addr_old = a}
    IN IF a = 0 \/ hit = {} THEN 0
       ELSE CHOOSE c \in hit : \A d \in hit : c <= d

\* gen_meta_keyval (no_address is False).
gen_meta_keyval(blks, amap, b) ==
    << <<"code", json_dumps(PyBytes(blks[b].code)).text>>,
       <<"size", json_dumps(PyInt(8)).text>>,
       <<"addr_old",
         json_dumps(PyInt(DictGet(amap, blks[b].addr_old, blks[b].addr_old))).text>>,
       <<"dna_type_id", json_dumps(PyBytes("ID")).text>>,
       <<"count", json_dumps(PyInt(1)).text>> >>

\* json_dumps(address_map.get(v, v) if _is_pointer(k) else v) for field f.
DataValue(blks, amap, b, f) ==
    LET v == FieldValue(blks, b, f.name_only)
    IN json_dumps(IF f.is_pointer THEN PyInt(DictGet(amap, v.i, v.i)) ELSE v)

\* gen_data_keyval without key_filter: (json_dumps(k)[1:-1], json_dumps(v)),
\* a pointer's value mapped through address_map.
gen_data_keyval(blks, amap, b) ==
    [j \in 1..Len(StructFields) |->
        << Strip(json_dumps(PyBytes(StructFields[j].name_only)).text),
           DataValue(blks, amap, b, StructFields[j]).text >>]

\* The exception gen_data_keyval ends with, "none" when every json_dumps of
\* it returns.
gen_data_keyval_raised(blks, amap, b) ==
    LET bad == {j \in 1..Len(StructFields) :
                   DataValue(blks, amap, b, StructFields[j]).raised # "none"}
    IN IF bad = {} THEN "none"
       ELSE DataValue(blks, amap, b,
                      StructFields[CHOOSE j \in bad : \A i \in bad : j <= i]).raised

---------------------------------------------------------------------------
(* do_bblock_filter *)

\* pattern.search(s) for the patterns of the model: ".*" accepts every
\* string, "^text$" the string text alone, and a pattern without
\* metacharacters every string it occurs in.
IsSubstr(p, s) ==
    \E i \in 1..(Len(s) - Len(p) + 1) : SubSeq(s, i, i + Len(p) - 1) = p

Search(pattern, s) ==
    IF pattern = ".*" THEN TRUE
    ELSE IF Len(pattern) >= 2 /\ SubSeq(pattern, 1, 1) = "^"
            /\ SubSeq(pattern, Len(pattern), Len(pattern)) = "$"
         THEN s = Strip(pattern)
         ELSE IsSubstr(pattern, s)

\* block.user_data = max(block.user_data, rec_iter) of an include match.
IncludeMark(u, rec_iter) == Max(u, rec_iter)

\* block.user_data = min(block.user_data, -rec_iter).
ExcludeMark(u, rec_iter) == Min(u, -rec_iter)

\* One call of do_bblock_filter_data_recursive in progress: the block, the
\* levels left, the iteration counter and the fields its loop has still to
\* visit.
Frame(b, rec_lvl, rec_iter, flds) ==
    [b |-> b, rec_lvl |-> rec_lvl, rec_iter |-> rec_iter, flds |-> flds]

\* child_block.user_data = max(block.user_data, rec_iter).
ChildMark(ud, b, child, rec_iter) == Max(Val(ud[b]), rec_iter)

\* The loop "for fld in fields" of the call fr, run until it calls itself on a
\* child block or ends: the markers, what is left of fr, and the new call.
RECURSIVE RunFrame(_, _, _)
RunFrame(blks, ud, fr) ==
    IF fr.flds = <<>> THEN [ud |-> ud, frame |-> fr, call |-> <<>>]
    ELSE LET fld == Head(fr.flds)
             rest == [fr EXCEPT !.flds = Tail(@)]
             child == get_pointer(blks, fr.b, fld.name_only)
             marked == [ud EXCEPT
                           ![child] = Some(ChildMark(ud, fr.b, child, fr.rec_iter))]
         IN IF fld.is_pointer /\ child # 0
            THEN IF fr.rec_lvl # 0
                 THEN [ud |-> marked, frame |-> rest,
                       call |-> <<Frame(child, fr.rec_lvl - 1, fr.rec_iter + 1,
                                        StructFields)>>]
                 ELSE RunFrame(blks, marked, rest)
            ELSE RunFrame(blks, ud, rest)

\* The loop over meta_keyval of one rule; st = [ud, has_match, do_break].
RECURSIVE MetaLoop(_, _, _, _, _)
MetaLoop(st, b, rule, rec_iter, pairs) ==
    IF pairs = <<>> THEN st
    ELSE LET k == Head(pairs)[1]
             v == Head(pairs)[2]
         IN IF Search(rule.key, k) /\ Search(rule.val, v)
            THEN IF rule.include
                 THEN MetaLoop(
                          [st EXCEPT !.has_match = TRUE,
                                     !.ud[b] = Some(IncludeMark(Val(@), rec_iter))],
                          b, rule, rec_iter, Tail(pairs))
                 ELSE [st EXCEPT !.has_match = TRUE,
                                 !.ud[b] = Some(ExcludeMark(Val(@), rec_iter)),
                                 !.do_break = TRUE]
            ELSE MetaLoop(st, b, rule, rec_iter, Tail(pairs))

\* The loop over data_keyval of one rule from pair i on, run until it calls
\* do_bblock_filter_data_recursive or ends.  The call descends from the field
\* named key[1:-1] of the matched pair.
RECURSIVE DataLoop(_, _, _, _, _, _, _)
DataLoop(st, b, rule, rec_lvl, rec_iter, pairs, i) ==
    IF i > Len(pairs) THEN [st |-> st, di |-> i, call |-> <<>>]
    ELSE LET k == pairs[i][1]
             v == pairs[i][2]
         IN IF Search(rule.key, k) /\ Search(rule.val, v)
            THEN IF rule.include
                 THEN LET inc == [st EXCEPT
                                     !.has_match = TRUE,
                                     !.ud[b] = Some(IncludeMark(Val(@), rec_iter))]
                      IN IF rec_lvl # 0
                         THEN [st |-> inc, di |-> i + 1,
                               call |-> <<Frame(b, rec_lvl - 1, rec_iter + 1,
                                                FieldFromName(Strip(k)))>>]
                         ELSE DataLoop(inc, b, rule, rec_lvl, rec_iter, pairs, i + 1)
                 ELSE [st |-> [st EXCEPT
                                  !.has_match = TRUE,
                                  !.ud[b] = Some(ExcludeMark(Val(@), rec_iter)),
                                  !.do_break = TRUE],
                       di |-> Len(pairs) + 1, call |-> <<>>]
            ELSE DataLoop(st, b, rule, rec_lvl, rec_iter, pairs, i + 1)

\* "if rec_lvl < 0: rec_lvl = 100".
RecLvl(rule) == IF rule.rec_lvl < 0 THEN InfiniteRecLvl ELSE rule.rec_lvl

\* The skip of an exclude rule: "if not include and block.user_data is not None".
SkipExclude(rule, u) == ~rule.include /\ u # None

\* The exclusion of lines 202-203 applied after every include rule, whether
\* it matched a pair or not.
FailedIncludeAlways(st, b, rule, rec_iter) ==
    IF rule.include
    THEN [st EXCEPT !.ud[b] = Some(ExcludeMark(Val(@), rec_iter)),
                    !.do_break = TRUE]
    ELSE st

\* Lines 201-203: an include rule that matched no pair excludes the block.
FailedInclude(st, b, rule, rec_iter) ==
    IF rule.include /\ ~st.has_match
    THEN [st EXCEPT !.ud[b] = Some(ExcludeMark(Val(@), rec_iter)),
                    !.do_break = TRUE]
    ELSE st

\* Lines 164-168: the locals, and user_data None becomes 0.
FilterBegin(ud, b) ==
    [ud |-> IF ud[b] = None THEN [ud EXCEPT ![b] = Some(0)] ELSE ud,
     has_include |-> FALSE, do_break |-> FALSE]

\* Lines 206-208: the implicit 'include all' when no include rule was given.
FilterEnd(ud, hi, b, rec_iter) ==
    IF Val(ud[b]) = 0 /\ ~hi
    THEN [ud EXCEPT ![b] = Some(Max(Val(@), rec_iter))]
    ELSE ud

\* A block is written when its user_data is None or positive.
IsWritten(u) == u = None \/ Val(u) > 0

---------------------------------------------------------------------------
(* The command line: --filter-block MODE KEY VALUE *)

\* main, lines 396-400: (m[0] == "+", 0 | -1 | int(m[1:]), key, value).
ParseFilter(m) ==
    [include |-> SubSeq(m[1], 1, 1) = "+",
     rec_lvl |-> IF Len(m[1]) = 1 THEN 0
                 ELSE IF SubSeq(m[1], 2, 2) = "*" THEN -1
                 ELSE CHOOSE i \in 0..9 : Digit[i + 1] = SubSeq(m[1], 2, Len(m[1])),
     key |-> m[2],
     val |-> m[3]]

\* The --filter-block arguments of the model.
FilterArgs ==
    { <<"+", "code", "ME">>,
      <<"+*", ".*", ".*">>,
      <<"-", "code", "MA">>,
      <<"+" \o IntStr(MaxRecLvl), "^n$", "^2$">>,
      <<"+*", "^n$", "^2$">>,
      <<"+" \o IntStr(MaxRecLvl), "^anb$", "^2$">> }

\* The rule lists of the model: up to MaxRules of these rules, none of them
\* given twice.
FilterLists ==
    {fl \in UNION {[1..n -> {ParseFilter(m) : m \in FilterArgs}] : n \in 0..MaxRules} :
        \A i, j \in 1..Len(fl) : i # j => fl[i] # fl[j]}

\* The blends of the filter pass: block i sits at address i, the blocks at odd
\* positions are meshes ("ME") and the others materials ("MA"); field n points
\* nowhere or to a neighbour in the file (before or after the block), which
\* gives chains in both file orders and two-block cycles; field anb points
\* nowhere or to block 2, and then block 2 has no pointers of its own, which
\* keeps the number of pointer paths (the cost of the recursion, which keeps
\* no record of the blocks it has visited) linear in the depth.
IsLeaf(blks, a) == blks[a].ptr.n = 0 /\ blks[a].ptr.anb = 0

Neighbours(b) == {c \in 1..NumBlocks : c = b - 1 \/ c = b + 1}

FilterBlends ==
    {blks \in [1..NumBlocks ->
                  [code : {"ME", "MA"}, hash : {1}, v : {PyInt(7)},
                   ptr : [n : 0..NumBlocks, anb : {0, 2}]]] :
        \A b \in 1..NumBlocks :
            /\ blks[b].code = (IF b % 2 = 1 THEN "ME" ELSE "MA")
            /\ blks[b].ptr.n \in {0} \cup Neighbours(b)
            /\ blks[b].ptr.anb # 0 => IsLeaf(blks, 2)}

WithAddr(blks, addr) ==
    [b \in DOMAIN blks |->
        [code |-> blks[b].code, addr_old |-> addr[b], hash |-> blks[b].hash,
         v |-> blks[b].v, ptr |-> blks[b].ptr]]

\* The command line of the filter pass: --no-fake-old-addresses and the
\* --filter-block rules, which are kept in filters.
NoArgs == [input |-> <<>>, output |-> <<>>, check_file |-> FALSE,
           use_fake_address |-> FALSE, full_data |-> FALSE]

---------------------------------------------------------------------------
(* SpecFilter: bblocks_to_json, lines 238-262, one rule at a time *)

\* rec_iter of do_bblock_filter: set to 1 and never changed.
rec_iter == 1

InitFilter ==
    /\ pc = "blocks_to_json"
    /\ blocks \in {WithAddr(blks, [b \in 1..NumBlocks |-> b]) : blks \in FilterBlends}
    /\ filters \in FilterLists
    /\ address_map = <<>>
    /\ user_data = [b \in 1..NumBlocks |-> None]
    /\ bi = 1
    /\ fi = 1
    /\ has_include = FALSE
    /\ do_break = FALSE
    /\ has_match = FALSE
    /\ di = 1
    /\ stack = <<>>
    /\ DATA = <<>>
    /\ hashes = {}
    /\ diag = <<>>
    /\ args = NoArgs
    /\ files = <<>>
    /\ idx = 1
    /\ addr_old = {}
    /\ validated = {}
    /\ written = {}
    /\ error = "none"

\* "if args.block_filters:" - an empty list skips the filter loop.
BlocksToJson ==
    /\ pc = "blocks_to_json"
    /\ pc' = IF filters # <<>> THEN "filter_block" ELSE "write"
    /\ UNCHANGED <<blocks, filters, address_map, user_data, bi, fi, has_include,
                   do_break, has_match, di, stack, DATA, outerVars>>

\* The call of do_bblock_filter on the next block, up to its for loop.
FilterBlockBegin ==
    /\ pc = "filter_block"
    /\ bi <= Len(blocks)
    /\ LET st == FilterBegin(user_data, bi)
       IN /\ user_data' = st.ud
          /\ has_include' = st.has_include
          /\ do_break' = st.do_break
    /\ fi' = 1
    /\ pc' = "filter_rule"
    /\ UNCHANGED <<blocks, filters, address_map, bi, has_match, di, stack, DATA,
                   outerVars>>

\* The data loop of rule fi from pair i on, in state st: it either calls the
\* recursive helper, or ends, and then the rule ends with lines 201-205.
RunDataLoop(st, i) ==
    LET r == DataLoop(st, bi, filters[fi], RecLvl(filters[fi]), rec_iter,
                      gen_data_keyval(blocks, address_map, bi), i)
        end == FailedInclude(r.st, bi, filters[fi], rec_iter)
    IN IF r.call # <<>>
       THEN /\ user_data' = r.st.ud
            /\ has_match' = r.st.has_match
            /\ do_break' = r.st.do_break
            /\ di' = r.di
            /\ stack' = r.call
            /\ pc' = "recursive"
            /\ fi' = fi
       ELSE /\ user_data' = end.ud
            /\ has_match' = end.has_match
            /\ do_break' = end.do_break
            /\ di' = 1
            /\ stack' = <<>>
            /\ pc' = "filter_rule"
            /\ fi' = fi + 1

\* One iteration of the for loop over the rules, up to its first call of the
\* recursive helper or, without one, to its end.
FilterRuleStep ==
    /\ pc = "filter_rule"
    /\ fi <= Len(filters)
    /\ ~do_break
    /\ has_include' = (has_include \/ filters[fi].include)
    /\ IF SkipExclude(filters[fi], user_data[bi])
       THEN /\ fi' = fi + 1
            /\ UNCHANGED <<pc, user_data, has_match, do_break, di, stack>>
       ELSE RunDataLoop(
                MetaLoop([ud |-> user_data, has_match |-> FALSE,
                          do_break |-> do_break],
                         bi, filters[fi], rec_iter,
                         gen_meta_keyval(blocks, address_map, bi)),
                1)
    /\ UNCHANGED <<blocks, filters, address_map, bi, DATA, outerVars>>

\* One step of the recursive helper: the loop of the innermost call runs to
\* its next call, or to its end, and then the call returns.
RecursiveStep ==
    /\ pc = "recursive"
    /\ stack # <<>>
    /\ LET r == RunFrame(blocks, user_data, Head(stack))
       IN /\ user_data' = r.ud
          /\ stack' = IF r.call # <<>> THEN r.call \o <<r.frame>> \o Tail(stack)
                      ELSE Tail(stack)
    /\ UNCHANGED <<pc, blocks, filters, address_map, bi, fi, has_include, do_break,
                   has_match, di, DATA, outerVars>>

\* The outermost call has returned: the data loop of the rule goes on.
RecursiveReturn ==
    /\ pc = "recursive"
    /\ stack = <<>>
    /\ RunDataLoop([ud |-> user_data, has_match |-> has_match,
                    do_break |-> do_break], di)
    /\ UNCHANGED <<blocks, filters, address_map, bi, has_include, DATA, outerVars>>

\* The end of do_bblock_filter and the step to the next block.
FilterBlockEnd ==
    /\ pc = "filter_rule"
    /\ fi > Len(filters) \/ do_break
    /\ user_data' = FilterEnd(user_data, has_include, bi, rec_iter)
    /\ bi' = IF bi = Len(blocks) THEN 1 ELSE bi + 1
    /\ pc' = IF bi = Len(blocks) THEN "write" ELSE "filter_block"
    /\ UNCHANGED <<blocks, filters, address_map, fi, has_include, do_break,
                   has_match, di, stack, DATA, outerVars>>

\* One iteration of the loop that writes the DATA section.
WriteBlock ==
    /\ pc = "write"
    /\ bi <= Len(blocks)
    /\ DATA' = IF IsWritten(user_data[bi]) THEN Append(DATA, bi) ELSE DATA
    /\ bi' = bi + 1
    /\ UNCHANGED <<pc, blocks, filters, address_map, user_data, fi, has_include,
                   do_break, has_match, di, stack, outerVars>>

WriteEnd ==
    /\ pc = "write"
    /\ bi > Len(blocks)
    /\ pc' = "written"
    /\ UNCHANGED <<blocks, filters, address_map, user_data, bi, fi, has_include,
                   do_break, has_match, di, stack, DATA, outerVars>>

NextFilter ==
    \/ BlocksToJson
    \/ FilterBlockBegin
    \/ FilterRuleStep
    \/ RecursiveStep
    \/ RecursiveReturn
    \/ FilterBlockEnd
    \/ WriteBlock
    \/ WriteEnd

SpecFilter == InitFilter /\ [][NextFilter]_vars

---------------------------------------------------------------------------
(* Properties of the filter pass (SpecFilter) *)

\* Rule r matches one of the metadata or data pairs of block b.
Matches(r, b) ==
    \E p \in Range(gen_meta_keyval(blocks, address_map, b))
              \cup Range(gen_data_keyval(blocks, address_map, b)) :
        Search(r.key, p[1]) /\ Search(r.val, p[2])

\* Rule r matches the data pair of a pointer field of block b.
MatchesPointerField(r, b) ==
    \E j \in 1..Len(StructFields) :
        /\ StructFields[j].is_pointer
        /\ Search(r.key, gen_data_keyval(blocks, address_map, b)[j][1])
        /\ Search(r.val, gen_data_keyval(blocks, address_map, b)[j][2])

\* The blocks the pointer fields of block b point to.
Children(b) ==
    {get_pointer(blocks, b, StructFields[j].name_only) :
        j \in {i \in 1..Len(StructFields) : StructFields[i].is_pointer}} \ {0}

RECURSIVE Closure(_, _)
Closure(S, k) ==
    IF k = 0 THEN S ELSE Closure(S \cup UNION {Children(b) : b \in S}, k - 1)

\* The blocks reachable from the blocks of S through pointer fields.
Reach(S) == Closure(S, NumBlocks)

Positive(b) == user_data[b] # None /\ Val(user_data[b]) > 0
Negative(b) == user_data[b] # None /\ Val(user_data[b]) < 0

Count(seq, x) == Cardinality({i \in 1..Len(seq) : seq[i] = x})

\* The evaluation of rule fi on block bi is in progress or about to start.
InRule ==
    /\ pc \in {"filter_rule", "recursive"}
    /\ fi <= Len(filters)
    /\ ~do_break

\* An include rule before rule fi matched block bi (and so set its marker to
\* a positive value).
EarlierIncludeMatched ==
    \E j \in 1..(fi - 1) : filters[j].include /\ Matches(filters[j], bi)

\* C1 as claimed: once an include rule has set the marker of the block to a
\* positive value, no later include rule of the list lowers it (a later
\* include rule that matches no pair must not turn it negative).
C1_NoIncludeLowers ==
    [][(InRule /\ filters[fi].include /\ EarlierIncludeMatched
        /\ Val(user_data[bi]) > 0)
       => Val(user_data'[bi]) >= Val(user_data[bi])]_vars

\* C1 as amended: while the rules are evaluated on a block, a positive marker
\* of that block stops being positive only in the step of a rule that is an
\* exclude rule or an include rule matching none of the pairs of the block; an
\* include rule that matches a pair leaves it positive.
C1_OnlyFailedIncludeOrExclude ==
    [][(InRule /\ Val(user_data[bi]) > 0 /\ Val(user_data'[bi]) <= 0)
       => (~filters[fi].include \/ ~Matches(filters[fi], bi))]_vars

\* Two include rules have matched block bi one after the other, and the
\* marker is positive after the later one.
C1_Witness ==
    /\ pc = "filter_rule"
    /\ fi = 3
    /\ filters[1].include /\ Matches(filters[1], bi)
    /\ filters[2].include /\ Matches(filters[2], bi)
    /\ Val(user_data[bi]) > 0

\* Rule i ends the evaluation of the rules on block b: an include rule that
\* matches no pair, or an exclude rule that matches one.
Stops(i, b) == filters[i].include # Matches(filters[i], b)

\* C2: an exclude rule that is reached and matches a pair of the block leaves
\* the block with a negative marker and out of DATA; a list of one exclude
\* rule drops exactly the matching blocks.
C2_ExcludeTakesEffect ==
    pc = "written" =>
        /\ \A b \in 1..Len(blocks) : \A j \in 1..Len(filters) :
               (/\ ~filters[j].include
                /\ \A i \in 1..(j - 1) : ~Stops(i, b)
                /\ Matches(filters[j], b))
               => (Negative(b) /\ b \notin Range(DATA))
        /\ (Len(filters) = 1 /\ ~filters[1].include)
               => Range(DATA) = {b \in 1..Len(blocks) : ~Matches(filters[1], b)}

\* ch is a pointer chain: every block but the last points to the next block
\* and to no other, the last points nowhere, no block occurs twice.
IsChain(ch) ==
    /\ \A i \in 1..(Len(ch) - 1) : Children(ch[i]) = {ch[i + 1]}
    /\ Children(ch[Len(ch)]) = {}
    /\ \A i, j \in 1..Len(ch) : i # j => ch[i] # ch[j]

Chains(len) == {ch \in [1..len -> 1..NumBlocks] : IsChain(ch)}

\* C3: with one include rule of recursion bound n that matches a pointer field
\* of the head of a chain of n+2 blocks and no pair of another block, the pass
\* includes the head and the next n blocks of the chain and not the last one.
C3_RecursionBound ==
    pc = "written" =>
        \A n \in 0..MaxRecLvl : \A ch \in Chains(n + 2) :
            (/\ Len(filters) = 1
             /\ filters[1].include
             /\ filters[1].rec_lvl = n
             /\ MatchesPointerField(filters[1], ch[1])
             /\ \A c \in 1..Len(blocks) : c # ch[1] => ~Matches(filters[1], c))
            => /\ \A i \in 1..(n + 1) : Positive(ch[i]) /\ Count(DATA, ch[i]) = 1
               /\ ~Positive(ch[n + 2])
               /\ ch[n + 2] \notin Range(DATA)

\* C4: with one include rule of infinite recursion that matches the pointer
\* field of A, where A points to B and B points to A, the pass ends with A and
\* B both included and each written once.
C4_CycleIncludesBoth ==
    pc = "written" =>
        \A A, B \in 1..Len(blocks) :
            (/\ A # B
             /\ Children(A) = {B}
             /\ Children(B) = {A}
             /\ Len(filters) = 1
             /\ filters[1].include
             /\ filters[1].rec_lvl = -1
             /\ MatchesPointerField(filters[1], A))
            => /\ Positive(A) /\ Positive(B)
               /\ Count(DATA, A) = 1 /\ Count(DATA, B) = 1

\* C5: with the documented rule list [+ code ME; +* .* .*] the blocks written
\* are the meshes and every block reachable from them through pointers.
C5_InfiniteReachesAll ==
    (pc = "written"
     /\ filters = <<ParseFilter(<<"+", "code", "ME">>),
                    ParseFilter(<<"+*", ".*", ".*">>)>>)
    => Range(DATA) = Reach({b \in 1..Len(blocks) : blocks[b].code = "ME"})

---------------------------------------------------------------------------
(* SpecAddr: gen_fake_addresses and check_file on one blend, a block at a time *)

\* The hash taken as it is, also when it is in hashes already.
ProbeNone(hs, hsh) == hsh

\* "while hsh in hashes: hsh += 1".
RECURSIVE Probe(_, _)
Probe(hs, hsh) == IF hsh \in hs THEN Probe(hs, hsh + 1) ELSE hsh

\* ret[key] = value of a Python dict.
DictSet(d, key, value) ==
    [k \in DOMAIN d \cup {key} |-> IF k = key THEN value ELSE d[k]]

\* One iteration of the loop of gen_fake_addresses on block blk, in state
\* st = [hashes, ret].
GenFakeStep(st, blk) ==
    IF blk.addr_old = 0
    THEN st
    ELSE LET hsh == Probe(st.hashes, blk.hash)
         IN [hashes |-> st.hashes \cup {hsh},
             ret |-> DictSet(st.ret, blk.addr_old, hsh)]

\* The scan ended at the first duplicate, block i of n.
AfterDuplicateBreak(i, n) == n + 1

\* "continue" after the diagnostic of block i of n: the scan goes on with the
\* next block.
AfterDuplicate(i, n) == i + 1

\* The blends of SpecAddr: any address (0 is the absent one) and any content
\* hash for every block.
AddrBlends ==
    [1..NumBlocks ->
        [code : {"DATA"}, addr_old : 0..MaxAddr, hash : 1..MaxHash,
         v : {PyInt(7)}, ptr : {[n |-> 0, anb |-> 0]}]]

InitAddr ==
    /\ pc = "gen_fake_addresses"
    /\ blocks \in AddrBlends
    /\ args \in {[NoArgs EXCEPT !.use_fake_address = u, !.check_file = TRUE] :
                    u \in BOOLEAN}
    /\ filters = <<>>
    /\ address_map = <<>>
    /\ user_data = [b \in 1..NumBlocks |-> None]
    /\ bi = 1
    /\ fi = 1
    /\ has_include = FALSE
    /\ do_break = FALSE
    /\ has_match = FALSE
    /\ di = 1
    /\ stack = <<>>
    /\ DATA = <<>>
    /\ hashes = {}
    /\ diag = <<>>
    /\ files = <<>>
    /\ idx = 1
    /\ addr_old = {}
    /\ validated = {}
    /\ written = {}
    /\ error = "none"

\* One iteration of the loop of gen_fake_addresses; address_map holds ret
\* while it is built.
GenFakeBlock ==
    /\ pc = "gen_fake_addresses"
    /\ args.use_fake_address
    /\ bi <= Len(blocks)
    /\ LET st == GenFakeStep([hashes |-> hashes, ret |-> address_map], blocks[bi])
       IN /\ hashes' = st.hashes
          /\ address_map' = st.ret
    /\ bi' = bi + 1
    /\ UNCHANGED <<pc, blocks, user_data, DATA, diag, args, files, idx, addr_old,
                   validated, written, error, filterVars>>

\* "return ret" after the loop, "return {}" without use_fake_address; main
\* then calls check_file.
GenFakeReturn ==
    /\ pc = "gen_fake_addresses"
    /\ ~args.use_fake_address \/ bi > Len(blocks)
    /\ pc' = IF args.check_file THEN "check_file" ELSE "checked"
    /\ bi' = 1
    /\ UNCHANGED <<blocks, address_map, user_data, DATA, hashes, diag, args, files,
                   idx, addr_old, validated, written, error, filterVars>>

\* One iteration of the loop of check_file: a diagnostic for an address seen
\* before, else the address joins the set.
CheckBlock ==
    /\ pc = "check_file"
    /\ bi <= Len(blocks)
    /\ IF blocks[bi].addr_old \in addr_old
       THEN /\ diag' = Append(diag, blocks[bi].addr_old)
            /\ bi' = AfterDuplicate(bi, Len(blocks))
            /\ UNCHANGED addr_old
       ELSE /\ addr_old' = addr_old \cup {blocks[bi].addr_old}
            /\ bi' = bi + 1
            /\ UNCHANGED diag
    /\ UNCHANGED <<pc, blocks, address_map, user_data, DATA, hashes, args, files,
                   idx, validated, written, error, filterVars>>

CheckReturn ==
    /\ pc = "check_file"
    /\ bi > Len(blocks)
    /\ pc' = "checked"
    /\ UNCHANGED <<blocks, address_map, user_data, bi, DATA, hashes, diag, args,
                   files, idx, addr_old, validated, written, error, filterVars>>

NextAddr ==
    \/ GenFakeBlock
    \/ GenFakeReturn
    \/ CheckBlock
    \/ CheckReturn

SpecAddr == InitAddr /\ [][NextAddr]_vars

---------------------------------------------------------------------------
(* Properties of gen_fake_addresses and check_file (SpecAddr) *)

\* The blocks with a non-absent address.
Present == {b \in 1..Len(blocks) : blocks[b].addr_old # 0}

\* The number of blocks with a non-absent address whose content hash is v.
HashCount(v) == Cardinality({b \in Present : blocks[b].hash = v})

\* The values a multiset of hashes occupies, whatever the order they come in:
\* going up from value v with carry blocks still to place, a value is
\* taken when a block is waiting for it or hashes to it.
RECURSIVE Occupied(_, _)
Occupied(v, carry) ==
    IF v > MaxHash + NumBlocks
    THEN {}
    ELSE IF carry + HashCount(v) > 0
         THEN {v} \cup Occupied(v + 1, carry + HashCount(v) - 1)
         ELSE Occupied(v + 1, 0)

\* The non-absent addresses of the blend are pairwise distinct.
DistinctAddresses ==
    \A a, b \in Present : a # b => blocks[a].addr_old # blocks[b].addr_old

GenFakeDone == pc \in {"check_file", "checked"} /\ args.use_fake_address

\* C6 as claimed: the set of the anonymized addresses gen_fake_addresses
\* returns depends only on the multiset of the content hashes of the blocks
\* with a non-absent address, whatever the raw addresses and the order of the
\* blocks are.
C6_SetFromHashesOnly == GenFakeDone => Range(address_map) = Occupied(1, 0)

\* C6 as amended: when the non-absent raw addresses are pairwise distinct, the
\* set of the anonymized addresses gen_fake_addresses returns depends only on
\* the multiset of the content hashes of the blocks with a non-absent address,
\* not on the raw addresses or the order of the blocks.
C6_SetFromHashesDistinct ==
    (GenFakeDone /\ DistinctAddresses) => Range(address_map) = Occupied(1, 0)

\* gen_fake_addresses has returned for three blocks with distinct addresses,
\* visited with the higher hash first and two of them colliding.
C6_Witness ==
    /\ GenFakeDone
    /\ DistinctAddresses
    /\ \E a, b, c \in Present :
          /\ a < b /\ b < c
          /\ blocks[a].hash > blocks[b].hash
          /\ blocks[b].hash = blocks[c].hash

\* The number of the blocks at address a.
Occurrences(a) == Cardinality({b \in 1..Len(blocks) : blocks[b].addr_old = a})

\* C8: the scan of check_file goes on after a duplicate: when it has ended, an
\* address that occurs k >= 1 times has exactly k-1 diagnostics, so an address
\* that occurs once has none; and no step of the scan changes the markers of
\* the blocks, the blocks or the address map.
C8_AllDuplicatesReported ==
    /\ [](pc = "checked" =>
            \A a \in 1..MaxAddr :
                Count(diag, a) = (IF Occurrences(a) = 0 THEN 0 ELSE Occurrences(a) - 1))
    /\ [][pc = "check_file" => UNCHANGED <<user_data, address_map, blocks>>]_vars

\* The scan has ended on a blend where a non-absent address occurs three
\* times, and it has reported a duplicated address once less than it occurs.
C8_Witness ==
    /\ pc = "checked"
    /\ \E a \in 1..MaxAddr : Occurrences(a) >= 2 /\ Count(diag, a) = Occurrences(a) - 1
    /\ \E i, j, k \in 1..Len(blocks) :
          /\ i < j /\ j < k
          /\ blocks[i].addr_old = blocks[j].addr_old
          /\ blocks[j].addr_old = blocks[k].addr_old
          /\ blocks[i].addr_old # 0

---------------------------------------------------------------------------
(* Spec: main, lines 388-417, one input file at a time *)

\* gen_fake_addresses as a whole: the loop from block i on.
RECURSIVE GenFakeFrom(_, _, _)
GenFakeFrom(st, blks, i) ==
    IF i > Len(blks) THEN st.ret ELSE GenFakeFrom(GenFakeStep(st, blks[i]), blks, i + 1)

gen_fake_addresses(a, blks) ==
    IF a.use_fake_address THEN GenFakeFrom([hashes |-> {}, ret |-> <<>>], blks, 1)
    ELSE <<>>

\* check_file as a whole: the diagnostics of the loop from block i on, seen
\* being the set addr_old.
RECURSIVE CheckFrom(_, _, _, _)
CheckFrom(blks, i, seen, out) ==
    IF i > Len(blks) THEN out
    ELSE IF blks[i].addr_old \in seen
         THEN CheckFrom(blks, AfterDuplicate(i, Len(blks)), seen,
                        Append(out, blks[i].addr_old))
         ELSE CheckFrom(blks, i + 1, seen \cup {blks[i].addr_old}, out)

check_file(blks) == CheckFrom(blks, 1, {}, <<>>)

\* The DATA loop of bblocks_to_json without block filters, from block i on:
\* every block is written (user_data is None); with full_data its data pairs
\* are rendered, and an exception of json_dumps ends the loop.
RECURSIVE WriteFrom(_, _, _, _, _)
WriteFrom(a, blks, amap, i, data) ==
    IF i > Len(blks) THEN [raised |-> "none", DATA |-> data]
    ELSE IF a.full_data /\ gen_data_keyval_raised(blks, amap, i) # "none"
         THEN [raised |-> gen_data_keyval_raised(blks, amap, i), DATA |-> data]
         ELSE WriteFrom(a, blks, amap, i + 1, Append(data, i))

blend_to_json(a, blks, amap) == WriteFrom(a, blks, amap, 1, <<>>)

\* The index of the last "." of s, 0 without one.
RECURSIVE LastDot(_, _)
LastDot(s, i) ==
    IF i = 0 THEN 0 ELSE IF SubSeq(s, i, i) = "." THEN i ELSE LastDot(s, i - 1)

\* os.path.splitext(infile)[0] + ".json" for a path without directories.
DefaultOutput(infile) ==
    (IF LastDot(infile, Len(infile)) <= 1 THEN infile
     ELSE SubSeq(infile, 1, LastDot(infile, Len(infile)) - 1)) \o ".json"

\* args.output after lines 390-394.
ResolveOutput(a) ==
    IF a.output # <<>> THEN a.output
    ELSE IF a.check_file THEN [i \in 1..Len(a.input) |-> None]
         ELSE [i \in 1..Len(a.input) |-> Some(DefaultOutput(a.input[i]))]

\* "if outfile:".
Truthy(outfile) == outfile # None /\ Val(outfile) # ""

\* len(list(zip(args.input, args.output))).
ZipLen(a) == Min(Len(a.input), Len(a.output))

\* An exception in the body of the loop for file i: nothing catches it, main
\* ends there.
Raise(i) == [pc |-> "raised", idx |-> i]

\* The blend of an input file: two blocks whose hashes collide; the value of
\* field v of the second block is val.
MainBlend(val) ==
    [b \in 1..2 |->
        [code |-> "DATA", addr_old |-> b, hash |-> 1,
         v |-> IF b = 2 THEN val ELSE PyInt(7), ptr |-> [n |-> 0, anb |-> 0]]]

\* What an input path may hold: nothing that open_blend can open, a blend of
\* integers, a blend with an Ellipsis value.
FileKinds ==
    {[opens |-> FALSE, blocks |-> MainBlend(PyInt(7))],
     [opens |-> TRUE, blocks |-> MainBlend(PyInt(7))],
     [opens |-> TRUE, blocks |-> MainBlend(PyEllipsis)]}

Paths == {"a.blend", "b.blend"}

\* The lists of PATH arguments (nargs="+") and of -o arguments (none, or one
\* to MaxInputs of them).
InputLists == UNION {[1..n -> Paths] : n \in 1..MaxInputs}
OutputLists ==
    {[i \in 1..n |-> Some("out" \o IntStr(i) \o ".json")] : n \in 0..MaxInputs}

Init ==
    /\ pc = "main"
    /\ args \in [input : InputLists, output : OutputLists, check_file : BOOLEAN,
                 use_fake_address : {TRUE}, full_data : BOOLEAN]
    /\ files \in [Paths -> FileKinds]
    /\ blocks = <<>>
    /\ filters = <<>>
    /\ address_map = <<>>
    /\ user_data = <<>>
    /\ bi = 1
    /\ fi = 1
    /\ has_include = FALSE
    /\ do_break = FALSE
    /\ has_match = FALSE
    /\ di = 1
    /\ stack = <<>>
    /\ DATA = <<>>
    /\ hashes = {}
    /\ diag = <<>>
    /\ idx = 1
    /\ addr_old = {}
    /\ validated = {}
    /\ written = {}
    /\ error = "none"

\* Lines 390-394: the default of args.output.
ParseArgs ==
    /\ pc = "main"
    /\ args' = [args EXCEPT !.output = ResolveOutput(args)]
    /\ pc' = "main_loop"
    /\ UNCHANGED <<blocks, address_map, user_data, bi, DATA, hashes, diag, files,
                   idx, addr_old, validated, written, error, filterVars>>

\* An iteration of the loop where open_blend raises.
OpenBlendRaises ==
    /\ pc = "main_loop"
    /\ idx <= ZipLen(args)
    /\ ~files[args.input[idx]].opens
    /\ error' = "OSError"
    /\ pc' = Raise(idx).pc
    /\ idx' = Raise(idx).idx
    /\ UNCHANGED <<blocks, address_map, user_data, bi, DATA, hashes, diag, args,
                   files, addr_old, validated, written, filterVars>>

\* An iteration of the loop on a file that opens: gen_fake_addresses,
\* check_file with --check-file, blend_to_json when there is an outfile.
ProcessFile ==
    /\ pc = "main_loop"
    /\ idx <= ZipLen(args)
    /\ files[args.input[idx]].opens
    /\ LET blks == files[args.input[idx]].blocks
           amap == gen_fake_addresses(args, blks)
           outfile == args.output[idx]
           w == IF Truthy(outfile) THEN blend_to_json(args, blks, amap)
                ELSE [raised |-> "none", DATA |-> <<>>]
       IN /\ blocks' = blks
          /\ user_data' = [b \in DOMAIN blks |-> None]
          /\ address_map' = amap
          /\ diag' = IF args.check_file THEN diag \o check_file(blks) ELSE diag
          /\ validated' = IF args.check_file THEN validated \cup {idx} ELSE validated
          /\ DATA' = w.DATA
          /\ error' = w.raised
          /\ IF w.raised # "none"
             THEN /\ pc' = Raise(idx).pc
                  /\ idx' = Raise(idx).idx
                  /\ UNCHANGED written
             ELSE /\ written' = IF Truthy(outfile) THEN written \cup {idx} ELSE written
                  /\ idx' = idx + 1
                  /\ UNCHANGED pc
    /\ UNCHANGED <<bi, hashes, args, files, addr_old, filterVars>>

\* zip(args.input, args.output) is exhausted: main returns.
MainEnd ==
    /\ pc = "main_loop"
    /\ idx > ZipLen(args)
    /\ pc' = "exit"
    /\ UNCHANGED <<blocks, address_map, user_data, bi, DATA, hashes, diag, args,
                   files, idx, addr_old, validated, written, error, filterVars>>

Next ==
    \/ ParseArgs
    \/ OpenBlendRaises
    \/ ProcessFile
    \/ MainEnd

Spec == Init /\ [][Next]_vars

---------------------------------------------------------------------------
(* Properties of main (Spec) *)

\* args.output holds the output of every input that the loop pairs.
Resolved == pc \in {"main_loop", "raised", "exit"}

\* Input i has been validated or has had its JSON written.
Processed(i) == i \in validated \cup written

\* C7: when several input files are given and opening or processing one of
\* them fails, every later input file (that can be opened) is still
\* processed: validated, or its JSON written.
C7_LaterFilesProcessed ==
    (pc \in {"raised", "exit"} /\ error # "none") =>
        \A j \in 1..ZipLen(args) :
            (j > idx /\ files[args.input[j]].opens) => Processed(j)

\* The loop of main has passed input i, or has ended in it.
Attempted(i) == Resolved /\ (i < idx \/ (i = idx /\ pc = "raised"))

\* The processing of input i hands an Ellipsis value to json_dumps: the file
\* opens, it has an outfile, --full-data renders the data of its blocks, and
\* a field of one of its blocks holds Ellipsis.
HandsEllipsis(i) ==
    /\ files[args.input[i]].opens
    /\ Truthy(args.output[i])
    /\ args.full_data
    /\ \E b \in DOMAIN files[args.input[i]].blocks :
           files[args.input[i]].blocks[b].v = PyEllipsis

\* C9: when the processing of an input hands Ellipsis to json_dumps, the
\* value is rendered as the placeholder "<...>", no error ends the
\* processing and the document of that input is written.
C9_EllipsisRendered ==
    \A i \in 1..Len(args.input) :
        (Attempted(i) /\ HandsEllipsis(i)) =>
            /\ json_dumps(PyEllipsis) = [raised |-> "none", text |-> "\"<...>\""]
            /\ error = "none"
            /\ i \in written

\* C10: when main has returned, every input path has been processed: its
\* JSON is written or it is validated, also with fewer -o paths than inputs.
C10_EveryInputProcessed ==
    pc = "exit" => \A i \in 1..Len(args.input) : Processed(i)

====
